---- MODULE Spec2Model ----
(***************************************************************************)
(* A model of opencode-plugin-notification: the layered configuration      *)
(* (defaults <- global <- project) of src/src/index.ts and                 *)
(* src/src/internals.ts, and the event handler NotificationPlugin returns. *)
(*                                                                         *)
(* JavaScript values are tagged records [t, v]: undefined, null, booleans, *)
(* strings and objects.  An object is a function from its own keys to      *)
(* values, so an absent key is a key outside the domain.  A string is a    *)
(* sequence of tokens; a template literal is the concatenation (\o) of its *)
(* parts, and '' is << >>.                                                 *)
(***************************************************************************)
EXTENDS Naturals, Sequences, FiniteSets, TLC

VARIABLES
    clientPath,   \* what client.path.get() answers: "reject", "nodata" or "dir"
    fsGlobal,     \* the file {globalConfigDir}/notification.json
    fsProject,    \* the file {directory}/.opencode/notification.json
    termProgram,  \* process.env.TERM_PROGRAM
    pc,           \* where NotificationPlugin's initialization stands
    config,       \* the const config of NotificationPlugin (meaningful once pc = "ready")
    handled,      \* one record per call of the event handler, in delivery order
    stdout,       \* the calls of process.stdout.write, in order: [by, bytes]
    notified,     \* the arguments of each call of notify, in order
    fsLog         \* the calls of mkdir and Bun.write, in order: [op, text, result]

vars == <<clientPath, fsGlobal, fsProject, termProgram, pc, config, handled, stdout, notified,
          fsLog>>

(***************************************************************************)
(* JavaScript values                                                       *)
(***************************************************************************)
Undef == [t |-> "undefined", v |-> "undefined"]

Null == [t |-> "null", v |-> "null"]

Bool(b) == [t |-> "boolean", v |-> b]

Str(s) == [t |-> "string", v |-> s]

Obj(f) == [t |-> "object", v |-> f]

NoProps == [k \in {} |-> Undef]

IsNullish(x) == x.t \in {"undefined", "null"}

\* ToBoolean: what `if (x)`, `!x` and `x && y` test.
Truthy(x) ==
    CASE x.t = "boolean" -> x.v
      [] x.t = "string" -> x.v # << >>
      [] x.t = "object" -> TRUE
      [] OTHER -> FALSE

\* Mutant of Nullish: a || b, which lets a false or an empty string fall through.
NullishAsOr(a, b) == IF Truthy(a) THEN a ELSE b

\* a ?? b
Nullish(a, b) == IF IsNullish(a) THEN b ELSE a

\* o.k for a non-nullish o: an own key of an object, undefined otherwise.
Get(o, k) == IF o.t = "object" /\ k \in DOMAIN o.v THEN o.v[k] ELSE Undef

\* o?.[k]
OptGet(o, k) == IF IsNullish(o) THEN Undef ELSE Get(o, k)

\* The own enumerable properties a spread ...x copies: those of an object, the
\* indexed tokens of a string, none for undefined, null and booleans.
OwnProps(x) ==
    CASE x.t = "object" -> x.v
      [] x.t = "string" ->
           [k \in {ToString(i - 1) : i \in 1..Len(x.v)} |->
               Str(<<x.v[CHOOSE i \in 1..Len(x.v) : ToString(i - 1) = k]>>)]
      [] OTHER -> NoProps

\* { ...d, ...u } on property maps: u's own keys win, whatever their value.
Spread(d, u) == [k \in DOMAIN d \cup DOMAIN u |-> IF k \in DOMAIN u THEN u[k] ELSE d[k]]

\* String(x), as a template literal `${x}` converts.
ToStr(x) ==
    CASE x.t = "string" -> x.v
      [] x.t = "boolean" -> IF x.v THEN <<"true">> ELSE <<"false">>
      [] x.t = "null" -> <<"null">>
      [] x.t = "undefined" -> <<"undefined">>
      [] OTHER -> <<"[object Object]">>

(***************************************************************************)
(* The configuration                                                       *)
(***************************************************************************)
Categories == {"session.idle", "permission.updated", "session.error"}

EventConfig(enabled, message) == ("enabled" :> enabled) @@ ("message" :> message)

DEFAULT_CONFIG ==
    [enabled |-> Bool(TRUE),
     itermIntegrationEnabled |-> Bool(TRUE),
     events |->
        ("session.idle" :> EventConfig(Bool(TRUE), Str(<<"Session completed">>))) @@
        ("permission.updated" :> EventConfig(Bool(TRUE), Str(<<"Permission needed">>))) @@
        ("session.error" :> EventConfig(Bool(TRUE), Str(<<"Error occurred">>)))]

\* One category of mergeConfig's result: { ...defaults.events[c], ...user.events?.[c] }
mergeEvent(defaults, user, c) ==
    Spread(defaults.events[c], OwnProps(OptGet(Get(user, "events"), c)))

\* Mutant of mergeConfig: falls back to DEFAULT_CONFIG instead of its first argument.
mergeConfigOntoBuiltIn(defaults, user) ==
    [enabled |-> Nullish(Get(user, "enabled"), DEFAULT_CONFIG.enabled),
     itermIntegrationEnabled |->
        Nullish(Get(user, "itermIntegrationEnabled"), DEFAULT_CONFIG.itermIntegrationEnabled),
     events |-> [c \in Categories |->
        Spread(DEFAULT_CONFIG.events[c], OwnProps(OptGet(Get(user, "events"), c)))]]

mergeConfig(defaults, user) ==
    [enabled |-> Nullish(Get(user, "enabled"), defaults.enabled),
     itermIntegrationEnabled |->
        Nullish(Get(user, "itermIntegrationEnabled"), defaults.itermIntegrationEnabled),
     events |-> [c \in Categories |-> mergeEvent(defaults, user, c)]]

\* A config as the JavaScript object JSON.stringify is given: nested objects of
\* booleans and strings.
Serialize(cfg) ==
    Obj(("enabled" :> cfg.enabled) @@
        ("itermIntegrationEnabled" :> cfg.itermIntegrationEnabled) @@
        ("events" :> Obj([c \in Categories |-> Obj(cfg.events[c])])))

(***************************************************************************)
(* JSON text                                                               *)
(*                                                                         *)
(* A text is a sequence of tokens: the punctuation { } : , and the double  *)
(* quote, the literals true false null, one space, one line feed, and the  *)
(* tokens of the strings.  The strings written have no character to        *)
(* escape.                                                                 *)
(***************************************************************************)
\* The order in which the keys of DEFAULT_CONFIG were inserted, which is the order
\* JSON.stringify writes them in.
KeyOrder == <<"enabled", "itermIntegrationEnabled", "events", "message",
              "session.idle", "permission.updated", "session.error">>

\* The keys JSON.stringify writes: those whose value is not undefined.
Keys(f) == SelectSeq(KeyOrder, LAMBDA k : k \in DOMAIN f /\ f[k] # Undef)

Quote(s) == <<"\"">> \o s \o <<"\"">>

\* The indentation of JSON.stringify(value, null, 2) at a depth.
Indent(depth) == [i \in 1..(2 * depth) |-> " "]

RECURSIVE Stringify(_, _), StringifyMembers(_, _, _)

\* JSON.stringify(x, null, 2), x at a depth of nesting
Stringify(x, depth) ==
    CASE x.t = "boolean" -> IF x.v THEN <<"true">> ELSE <<"false">>
      [] x.t = "string" -> Quote(x.v)
      [] x.t = "object" ->
           IF Keys(x.v) = << >> THEN <<"{", "}">>
           ELSE <<"{", "\n">> \o StringifyMembers(Keys(x.v), x.v, depth + 1)
                    \o <<"\n">> \o Indent(depth) \o <<"}">>
      [] OTHER -> <<"null">>

StringifyMembers(keys, f, depth) ==
    Indent(depth) \o Quote(<<Head(keys)>>) \o <<":", " ">> \o Stringify(f[Head(keys)], depth)
        \o (IF Len(keys) = 1 THEN << >>
            ELSE <<",", "\n">> \o StringifyMembers(Tail(keys), f, depth))

Parsed(value, pos) == [ok |-> TRUE, val |-> value, pos |-> pos]

NotParsed == [ok |-> FALSE, val |-> Undef, pos |-> 0]

RECURSIVE SkipSpace(_, _)

SkipSpace(text, p) ==
    IF p <= Len(text) /\ text[p] \in {" ", "\n"} THEN SkipSpace(text, p + 1) ELSE p

\* A string literal at p: the tokens between two double quotes.
ParseString(text, p) ==
    IF p > Len(text) \/ text[p] # "\"" THEN NotParsed
    ELSE LET closing == {q \in (p + 1)..Len(text) : text[q] = "\""}
         IN  IF closing = {} THEN NotParsed
             ELSE LET q == CHOOSE q \in closing : \A r \in closing : q <= r
                  IN  Parsed(Str(SubSeq(text, p + 1, q - 1)), q + 1)

RECURSIVE ParseValue(_, _), ParseMembers(_, _, _)

\* JSON.parse at position p0: a literal, a string or an object.
ParseValue(text, p0) ==
    LET p == SkipSpace(text, p0)
    IN  IF p > Len(text) THEN NotParsed
        ELSE CASE text[p] = "true" -> Parsed(Bool(TRUE), p + 1)
               [] text[p] = "false" -> Parsed(Bool(FALSE), p + 1)
               [] text[p] = "null" -> Parsed(Null, p + 1)
               [] text[p] = "\"" -> ParseString(text, p)
               [] text[p] = "{" ->
                    LET q == SkipSpace(text, p + 1)
                    IN  IF q <= Len(text) /\ text[q] = "}"
                        THEN Parsed(Obj(NoProps), q + 1)
                        ELSE ParseMembers(text, q, NoProps)
               [] OTHER -> NotParsed

\* The members of an object from p on, those read so far in acc.
ParseMembers(text, p, acc) ==
    LET key == ParseString(text, p)
        colon == SkipSpace(text, key.pos)
    IN  IF ~key.ok \/ Len(key.val.v) # 1 \/ colon > Len(text) \/ text[colon] # ":"
        THEN NotParsed
        ELSE LET member == ParseValue(text, colon + 1)
                 after == SkipSpace(text, member.pos)
                 props == Spread(acc, key.val.v[1] :> member.val)
             IN  IF ~member.ok \/ after > Len(text) THEN NotParsed
                 ELSE CASE text[after] = "}" -> Parsed(Obj(props), after + 1)
                        [] text[after] = "," ->
                             ParseMembers(text, SkipSpace(text, after + 1), props)
                        [] OTHER -> NotParsed

(***************************************************************************)
(* Files                                                                   *)
(***************************************************************************)
\* kind: "nodir" (the directory of the file does not exist); "missing" (the
\* directory does, the file does not); "stat_error" (exists() rejects); "unreadable"
\* (exists, the read fails); "malformed" (exists, the text is not JSON); "json"
\* (exists and parses to json).
File(kind, json) == [kind |-> kind, json |-> json]

Missing == File("missing", Undef)

JsonFile(value) == File("json", value)

\* A completion: a returned value, or a throw that reaches the caller.
Return(value) == [threw |-> FALSE, val |-> value]

Threw == [threw |-> TRUE, val |-> Undef]

\* The try block of loadConfigFile: file.exists(), then file.json().
TryLoadConfigFile(file) ==
    CASE file.kind = "stat_error" -> Threw
      [] file.kind \in {"missing", "nodir"} -> Return(Undef)
      [] file.kind \in {"unreadable", "malformed"} -> Threw
      [] OTHER -> Return(file.json)

\* Mutant of loadConfigFile: no catch, a failing read reaches the caller.
loadConfigFileUncaught(file) == TryLoadConfigFile(file)

\* try { ... } catch { } return undefined
loadConfigFile(file) ==
    LET r == TryLoadConfigFile(file)
    IN  IF r.threw THEN Return(Undef) ELSE r

\* client.path.get() then pathInfo.data?.config ?? ''
getGlobalConfigDir(answer) ==
    CASE answer = "reject" -> Threw
      [] answer = "nodata" -> Return(Str(<< >>))
      [] OTHER -> Return(Str(<<"/home/u/.config/opencode">>))

\* Mutant of loadConfig: the layers folded in the wrong order, the global one last.
loadConfigGlobalLast(answer, globalFile, projectFile) ==
    LET dir == getGlobalConfigDir(answer)
        globalConfig ==
            IF Truthy(dir.val) THEN loadConfigFile(globalFile) ELSE Return(Undef)
        projectConfig == loadConfigFile(projectFile)
        c0 == DEFAULT_CONFIG
        c1 == IF Truthy(projectConfig.val) THEN mergeConfig(c0, projectConfig.val) ELSE c0
        c2 == IF Truthy(globalConfig.val) THEN mergeConfig(c1, globalConfig.val) ELSE c1
    IN  IF dir.threw \/ globalConfig.threw \/ projectConfig.threw THEN Threw ELSE Return(c2)

\* Mutant of loadConfig: the global file is read whatever the directory is, the
\* path `${globalConfigDir}/notification.json` being never empty.
loadConfigNoEmptyCheck(answer, globalFile, projectFile) ==
    LET dir == getGlobalConfigDir(answer)
        globalConfig == loadConfigFile(globalFile)
        projectConfig == loadConfigFile(projectFile)
        c0 == DEFAULT_CONFIG
        c1 == IF Truthy(globalConfig.val) THEN mergeConfig(c0, globalConfig.val) ELSE c0
        c2 == IF Truthy(projectConfig.val) THEN mergeConfig(c1, projectConfig.val) ELSE c1
    IN  IF dir.threw \/ globalConfig.threw \/ projectConfig.threw THEN Threw ELSE Return(c2)

loadConfig(answer, globalFile, projectFile) ==
    LET dir == getGlobalConfigDir(answer)
        globalConfigPath ==
            IF Truthy(dir.val) THEN Str(dir.val.v \o <<"/notification.json">>) ELSE Str(<< >>)
        globalConfig ==
            IF Truthy(globalConfigPath) THEN loadConfigFile(globalFile) ELSE Return(Undef)
        projectConfig == loadConfigFile(projectFile)
        c0 == DEFAULT_CONFIG
        c1 == IF Truthy(globalConfig.val) THEN mergeConfig(c0, globalConfig.val) ELSE c0
        c2 == IF Truthy(projectConfig.val) THEN mergeConfig(c1, projectConfig.val) ELSE c1
    IN  IF dir.threw \/ globalConfig.threw \/ projectConfig.threw THEN Threw ELSE Return(c2)

(***************************************************************************)
(* Notification                                                            *)
(***************************************************************************)
ESC == "\\x1b"

BEL == "\\x07"

ITermApp == Str(<<"iTerm.app">>)

\* process.env.TERM_PROGRAM === 'iTerm.app'
isITerm2(env) == env = ITermApp

\* Mutant of notify: the channel chosen by the terminal alone, the flag ignored.
notifyIgnoringFlag(title, message, itermIntegrationEnabled, env) ==
    LET fullMessage == ToStr(title) \o <<" - ">> \o ToStr(message)
    IN  IF isITerm2(env)
        THEN <<ESC, "]", "9", ";">> \o fullMessage \o <<BEL>>
        ELSE <<BEL>>

\* Mutant of notify: the escape sequence ended by the string terminator ESC \
\* in place of the bell.
notifyStringTerminated(title, message, itermIntegrationEnabled, env) ==
    LET fullMessage == ToStr(title) \o <<" - ">> \o ToStr(message)
    IN  IF Truthy(itermIntegrationEnabled) /\ isITerm2(env)
        THEN <<ESC, "]", "9", ";">> \o fullMessage \o <<ESC, "\\">>
        ELSE <<BEL>>

\* The argument of the single process.stdout.write call notify makes.
notify(title, message, itermIntegrationEnabled, env) ==
    LET fullMessage == ToStr(title) \o <<" - ">> \o ToStr(message)
    IN  IF Truthy(itermIntegrationEnabled) /\ isITerm2(env)
        THEN <<ESC, "]", "9", ";">> \o fullMessage \o <<BEL>>
        ELSE <<BEL>>

(***************************************************************************)
(* The event handler                                                       *)
(***************************************************************************)
EventTypes == Categories \cup {"message.updated"}

OpenCode == Str(<<"OpenCode">>)

\* eventConfig?.enabled, eventConfig.message on a category of the config
Prop(eventConfig, k) == IF k \in DOMAIN eventConfig THEN eventConfig[k] ELSE Undef

\* Mutant of GlobalGate: the check of config.enabled left out.
GlobalGateMissing(cfg) == TRUE

\* if (!config.enabled) return;
GlobalGate(cfg) == Truthy(cfg.enabled)

\* Mutant of CategoryGate: every case reads the session.idle category.
CategoryGateOfIdle(cfg, type) == Truthy(Prop(cfg.events["session.idle"], "enabled"))

\* if (!eventConfig?.enabled) return;
CategoryGate(cfg, type) == Truthy(Prop(cfg.events[type], "enabled"))

Step(act, message) == [act |-> act, message |-> message]

\* Mutant of PermissionMessage: the title is used as it comes, without `?? 'Unknown'`.
PermissionMessageNoUnknown(cfg, payloadTitle) ==
    Str(ToStr(Prop(cfg.events["permission.updated"], "message")) \o <<": ">>
        \o ToStr(payloadTitle))

\* const title = (event.properties.title as string) ?? 'Unknown';
\* message: `${eventConfig.message}: ${title}`
PermissionMessage(cfg, payloadTitle) ==
    LET permissionTitle == Nullish(payloadTitle, Str(<<"Unknown">>))
    IN  Str(ToStr(Prop(cfg.events["permission.updated"], "message")) \o <<": ">>
            \o ToStr(permissionTitle))

\* Mutant of ErrorMessage: the message is composed as for permission.updated.
ErrorMessageWithDetail(cfg, payloadTitle) ==
    Str(ToStr(Prop(cfg.events["session.error"], "message")) \o <<": ">>
        \o ToStr(Nullish(payloadTitle, Str(<<"Unknown">>))))

\* message: eventConfig.message, whatever event.properties holds
ErrorMessage(cfg, payloadTitle) == Prop(cfg.events["session.error"], "message")

\* Mutant of HandlerEntry: the switch has a default that notifies like session.error.
HandlerEntryWithDefault(cfg, type, payloadTitle) ==
    IF ~GlobalGate(cfg) THEN Step("return", Undef)
    ELSE CASE type = "session.idle" ->
                IF ~CategoryGate(cfg, type) THEN Step("return", Undef)
                ELSE Step("lookup", Undef)
           [] type = "permission.updated" ->
                IF ~CategoryGate(cfg, type) THEN Step("return", Undef)
                ELSE Step("notify",
                          Str(ToStr(Prop(cfg.events[type], "message")) \o <<": ">>
                              \o ToStr(Nullish(payloadTitle, Str(<<"Unknown">>)))))
           [] OTHER ->
                IF ~CategoryGate(cfg, "session.error") THEN Step("return", Undef)
                ELSE Step("notify", Prop(cfg.events["session.error"], "message"))

\* Mutant of HandlerEntry: client.session.get is called and not awaited, notify
\* follows at once with the placeholder.
HandlerEntryLookupNotAwaited(cfg, type, payloadTitle) ==
    IF ~GlobalGate(cfg) THEN Step("return", Undef)
    ELSE CASE type = "session.idle" ->
                IF ~CategoryGate(cfg, type) THEN Step("return", Undef)
                ELSE Step("notify",
                          Str(ToStr(Prop(cfg.events[type], "message")) \o <<": ", "Session">>))
           [] type = "permission.updated" ->
                IF ~CategoryGate(cfg, type) THEN Step("return", Undef)
                ELSE Step("notify", PermissionMessage(cfg, payloadTitle))
           [] type = "session.error" ->
                IF ~CategoryGate(cfg, type) THEN Step("return", Undef)
                ELSE Step("notify", ErrorMessage(cfg, payloadTitle))
           [] OTHER -> Step("return", Undef)

\* Mutant of HandlerEntry: case 'permission.updated' awaits the session lookup
\* too, as case 'session.idle' does.
HandlerEntryPermissionLookup(cfg, type, payloadTitle) ==
    IF ~GlobalGate(cfg) THEN Step("return", Undef)
    ELSE CASE type \in {"session.idle", "permission.updated"} ->
                IF ~CategoryGate(cfg, type) THEN Step("return", Undef)
                ELSE Step("lookup", Undef)
           [] type = "session.error" ->
                IF ~CategoryGate(cfg, type) THEN Step("return", Undef)
                ELSE Step("notify", ErrorMessage(cfg, payloadTitle))
           [] OTHER -> Step("return", Undef)

\* The handler from its entry to its first await or its return: "return" (nothing
\* done), "lookup" (client.session.get called, the handler suspended) or "notify"
\* (notify called with this message, then return).
HandlerEntry(cfg, type, payloadTitle) ==
    IF ~GlobalGate(cfg) THEN Step("return", Undef)
    ELSE CASE type = "session.idle" ->
                IF ~CategoryGate(cfg, type) THEN Step("return", Undef)
                ELSE Step("lookup", Undef)
           [] type = "permission.updated" ->
                IF ~CategoryGate(cfg, type) THEN Step("return", Undef)
                ELSE Step("notify", PermissionMessage(cfg, payloadTitle))
           [] type = "session.error" ->
                IF ~CategoryGate(cfg, type) THEN Step("return", Undef)
                ELSE Step("notify", ErrorMessage(cfg, payloadTitle))
           [] OTHER -> Step("return", Undef)

\* Mutant of SessionTitle: the title of the response is used whenever the lookup
\* resolves, `title = response.data?.title`.
SessionTitleNoFallback(outcome) ==
    IF outcome.threw THEN Str(<<"Session">>)
    ELSE OptGet(Get(outcome.val, "data"), "title")

\* let title = 'Session'; try { response = await ...; if (response.data?.title)
\* title = response.data.title } catch { }
SessionTitle(outcome) ==
    IF outcome.threw THEN Str(<<"Session">>)
    ELSE LET t == OptGet(Get(outcome.val, "data"), "title")
         IN  IF Truthy(t) THEN t ELSE Str(<<"Session">>)

\* Mutant of IdleMessage: the title is kept in a variable the cases share, and a
\* permission.updated event handled during the lookup has set it.
IdleMessageSharedTitle(cfg, outcome) ==
    LET last == handled[Len(handled)]
        title == IF last.type = "permission.updated" /\ ~IsNullish(last.title)
                 THEN last.title
                 ELSE SessionTitle(outcome)
    IN  Str(ToStr(Prop(cfg.events["session.idle"], "message")) \o <<": ">> \o ToStr(title))

\* Mutant of IdleMessage: the title first, `${title}: ${eventConfig.message}`.
IdleMessageTitleFirst(cfg, outcome) ==
    Str(ToStr(SessionTitle(outcome)) \o <<": ">>
        \o ToStr(Prop(cfg.events["session.idle"], "message")))

\* The message of the notify call that follows the lookup of a session.idle event.
IdleMessage(cfg, outcome) ==
    Str(ToStr(Prop(cfg.events["session.idle"], "message")) \o <<": ">>
        \o ToStr(SessionTitle(outcome)))

NotifyOptions(title, message, flag) ==
    [title |-> title, message |-> message, itermIntegrationEnabled |-> flag]

\* A call of the handler: its event, where it stands, the calls it made of
\* client.session.get and how they settled.
Handled(type, payloadTitle, state, lookups) ==
    [type |-> type, title |-> payloadTitle, state |-> state, lookups |-> lookups,
     settled |-> << >>]

\* Mutant of NotifyWrites: the OSC 9 branch does not return, the bell follows it.
NotifyWritesFallThrough(title, message, itermIntegrationEnabled, env) ==
    IF Truthy(itermIntegrationEnabled) /\ isITerm2(env)
    THEN <<notify(title, message, itermIntegrationEnabled, env), <<BEL>>>>
    ELSE <<<<BEL>>>>

\* The calls of process.stdout.write one call of notify makes.
NotifyWrites(title, message, itermIntegrationEnabled, env) ==
    <<notify(title, message, itermIntegrationEnabled, env)>>

\* The writes of the handler call `by`, as stdout records them.
Written(by, writes) == [k \in 1..Len(writes) |-> [by |-> by, bytes |-> writes[k]]]

(***************************************************************************)
(* Inputs: the contents a configuration file may have                      *)
(***************************************************************************)
MaxEvents == 2

\* nothing, or the one key k with a value of vals
OptField(k, vals) == {NoProps} \cup {k :> x : x \in vals}

FlagValues == {Bool(TRUE), Bool(FALSE), Null}

\* The messages a layer gives: null, '', and a text of the layer's own.
MessageValues(own) == {Null, Str(<< >>), Str(<<own>>)}

\* Layers that give top-level fields only.
TopLayers ==
    {Obj(a @@ b) : a \in OptField("enabled", FlagValues),
                   b \in OptField("itermIntegrationEnabled", FlagValues)}

\* What a layer may give for one category: null, or an object with any of its fields.
CategoryValues(own) ==
    {Null} \cup {Obj(a @@ b) : a \in OptField("enabled", FlagValues),
                               b \in OptField("message", MessageValues(own))}

\* Layers that give events only: null, {}, or one category.
EventsLayers(own) ==
    {Obj("events" :> Null), Obj("events" :> Obj(NoProps))}
    \cup {Obj("events" :> Obj(c :> x)) : c \in Categories, x \in CategoryValues(own)}

\* Layers that give everything at once.
FullLayers(own) ==
    {Obj(("enabled" :> Bool(e)) @@ ("itermIntegrationEnabled" :> Bool(i)) @@
         ("events" :> Obj([c \in Categories |-> Obj(EventConfig(x, Str(<<own, c>>)))])))
        : e \in BOOLEAN, i \in BOOLEAN, x \in {Bool(TRUE), Bool(FALSE)}}
    \cup {Obj(("enabled" :> Bool(TRUE)) @@
              ("events" :> Obj(("session.idle" :> Obj("enabled" :> Bool(FALSE))) @@
                               ("session.error" :> Obj("message" :> Str(<<own>>))))))}

\* Layers with a key no type declares: at the top level, under events (a category
\* that does not exist), inside a category.
ExtraLayers(own) ==
    {Obj(("enabled" :> Bool(FALSE)) @@ ("theme" :> Str(<<own>>))),
     Obj("events" :> Obj(("session.idle" :> Obj("enabled" :> Bool(FALSE))) @@
                         ("session.compacted" :> Obj(EventConfig(Bool(TRUE), Str(<<own>>)))))),
     Obj("events" :> Obj("session.error" :>
                         Obj(("message" :> Str(<<own>>)) @@ ("sound" :> Str(<<"ping">>)))))}

Layers(own) == TopLayers \cup EventsLayers(own) \cup FullLayers(own) \cup ExtraLayers(own)

\* JSON documents that are not objects.
Scalars == {Null, Bool(TRUE), Bool(FALSE), Str(<< >>), Str(<<"x">>)}

BrokenFiles == {Missing, File("nodir", Undef), File("stat_error", Undef),
                File("unreadable", Undef), File("malformed", Undef)}

Files(own) == BrokenFiles \cup {JsonFile(x) : x \in Layers(own) \cup Scalars}

\* The few files the dispatch specification starts from.
GlobalSample ==
    {Missing, File("malformed", Undef),
     JsonFile(Obj("enabled" :> Bool(FALSE))),
     JsonFile(Obj(("enabled" :> Bool(TRUE)) @@ ("itermIntegrationEnabled" :> Bool(FALSE)))),
     JsonFile(Obj("events" :> Obj("session.idle" :> Obj("enabled" :> Bool(FALSE))))),
     JsonFile(Obj("events" :> Obj("session.error" :> Obj("message" :> Str(<<"G">>)))))}

ProjectSample ==
    {Missing,
     JsonFile(Obj("enabled" :> Bool(FALSE))),
     JsonFile(Obj("enabled" :> Bool(TRUE))),
     JsonFile(Obj("events" :> Obj("permission.updated" :>
                  Obj(EventConfig(Bool(FALSE), Str(<<"P">>)))))),
     JsonFile(Obj("events" :> Obj(("session.error" :> Obj("enabled" :> Bool(FALSE))) @@
                                  ("session.idle" :> Obj("message" :> Str(<< >>))))))}

TermPrograms == {Undef, ITermApp, Str(<<"Apple_Terminal">>), Str(<<"iterm.app">>), Str(<< >>)}

ClientPaths == {"reject", "nodata", "dir"}

\* event.properties.title of a delivered event
PayloadTitles == {Undef, Null, Str(<< >>), Str(<<"Bash">>)}

\* How client.session.get settles: it rejects, or resolves to a response.
LookupOutcomes ==
    {Threw,
     Return(Obj(NoProps)),
     Return(Obj("data" :> Obj(NoProps))),
     Return(Obj("data" :> Obj("title" :> Str(<< >>)))),
     Return(Obj("data" :> Obj("title" :> Str(<<"Build">>))))}

(***************************************************************************)
(* Initialization of the plugin: ensureGlobalConfig, then loadConfig       *)
(***************************************************************************)
\* Mutant of EnsureCheck: the existence check left out, the file always written.
EnsureCheckAlwaysCreate(answer, globalFile) ==
    LET dir == getGlobalConfigDir(answer)
    IN  CASE dir.threw -> "throw"
          [] ~Truthy(dir.val) -> "return"
          [] OTHER -> "create"

\* Mutant of EnsureCheck: file.exists() awaited outside the try, its rejection
\* not caught.
EnsureCheckUncaught(answer, globalFile) ==
    LET dir == getGlobalConfigDir(answer)
    IN  CASE dir.threw -> "throw"
          [] ~Truthy(dir.val) -> "return"
          [] globalFile.kind = "stat_error" -> "throw"
          [] globalFile.kind \notin {"missing", "nodir"} -> "return"
          [] OTHER -> "create"

\* ensureGlobalConfig up to `if (await file.exists()) return;`
\*   "throw": client.path.get() rejected, outside the try;
\*   "return": the directory is '', the file exists, or exists() threw (caught);
\*   "create": the file is missing, mkdir and write come next.
EnsureCheck(answer, globalFile) ==
    LET dir == getGlobalConfigDir(answer)
    IN  CASE dir.threw -> "throw"
          [] ~Truthy(dir.val) -> "return"
          [] globalFile.kind = "stat_error" -> "return"
          [] globalFile.kind \notin {"missing", "nodir"} -> "return"
          [] OTHER -> "create"

\* JSON.parse of a whole text: the value, or a SyntaxError.
JsonParse(text) ==
    LET r == ParseValue(text, 1)
    IN  IF r.ok /\ SkipSpace(text, r.pos) = Len(text) + 1 THEN Return(r.val) ELSE Threw

\* Mutant of WrittenText: the file written is a template that keeps notifications
\* off until the user edits it.
WrittenTextTurnedOff ==
    Stringify(Serialize([DEFAULT_CONFIG EXCEPT !.enabled = Bool(FALSE)]), 0) \o <<"\n">>

\* Mutant of WrittenText: the line feed is not appended.
WrittenTextNoNewline == Stringify(Serialize(DEFAULT_CONFIG), 0)

\* JSON.stringify(DEFAULT_CONFIG, null, 2) + '\n'
WrittenText == Stringify(Serialize(DEFAULT_CONFIG), 0) \o <<"\n">>

\* The file a complete write of WrittenText leaves, as its readers find it.
WrittenFile ==
    LET r == JsonParse(WrittenText)
    IN  IF r.threw THEN File("malformed", Undef) ELSE JsonFile(r.val)

FsCall(op, text, result) == [op |-> op, text |-> text, result |-> result]

\* The calls ensureGlobalConfig makes after the existence check, with their
\* results: Bun.write is reached only when mkdir succeeded.
EnsureCalls(io) ==
    IF io = "mkdir_fails" THEN <<FsCall("mkdir", << >>, "fails")>>
    ELSE <<FsCall("mkdir", << >>, "ok"),
           FsCall("write", WrittenText,
                  CASE io = "ok" -> "ok"
                    [] io = "write_truncated" -> "truncated"
                    [] OTHER -> "fails")>>

\* mkdir(globalConfigDir, {recursive: true}) then Bun.write(path, defaults): the
\* file afterwards, as its readers find it.  A failure is caught; a write that
\* fails midway may leave a truncated file; a write that fails leaves the
\* directory mkdir made and whatever file is there.
EnsureWritten(globalFile, io) ==
    CASE io = "ok" -> WrittenFile
      [] io = "write_truncated" -> File("malformed", Undef)
      [] io = "write_fails" -> IF globalFile.kind = "nodir" THEN Missing ELSE globalFile
      [] OTHER -> globalFile

IoOutcomes == {"ok", "mkdir_fails", "write_fails", "write_truncated"}

EnsureExists ==
    /\ pc = "start"
    /\ pc' = CASE EnsureCheck(clientPath, fsGlobal) = "throw" -> "failed"
               [] EnsureCheck(clientPath, fsGlobal) = "create" -> "creating"
               [] OTHER -> "ensured"
    /\ UNCHANGED <<clientPath, fsGlobal, fsProject, termProgram, config, handled, stdout,
                   notified, fsLog>>

EnsureWrite ==
    /\ pc = "creating"
    /\ \E io \in IoOutcomes :
          /\ fsGlobal' = EnsureWritten(fsGlobal, io)
          /\ fsLog' = fsLog \o EnsureCalls(io)
    /\ pc' = "ensured"
    /\ UNCHANGED <<clientPath, fsProject, termProgram, config, handled, stdout, notified>>

Load ==
    /\ pc = "ensured"
    /\ LET r == loadConfig(clientPath, fsGlobal, fsProject)
       IN  IF r.threw
           THEN pc' = "failed" /\ config' = config
           ELSE pc' = "ready" /\ config' = r.val
    /\ UNCHANGED <<clientPath, fsGlobal, fsProject, termProgram, handled, stdout, notified,
                   fsLog>>

(***************************************************************************)
(* Events                                                                  *)
(***************************************************************************)
\* Mutant of HandlerConfig: the handler loads the configuration at each event.
HandlerConfigReloaded(cfg, answer, globalFile, projectFile) ==
    LET r == loadConfig(answer, globalFile, projectFile)
    IN  IF r.threw THEN cfg ELSE r.val

\* The configuration the handler reads: the constant `config` of its closure,
\* assigned once by NotificationPlugin, whatever the files hold by now.
HandlerConfig(cfg, answer, globalFile, projectFile) == cfg

\* The host calls the handler with an event; the handler runs to its first await
\* or to its end.
Deliver ==
    /\ pc = "ready"
    /\ Len(handled) < MaxEvents
    /\ \E type \in EventTypes, payloadTitle \in PayloadTitles :
          /\ type \notin {"permission.updated", "session.error"} => payloadTitle = Undef
          /\ LET cfg == HandlerConfig(config, clientPath, fsGlobal, fsProject)
                 step == HandlerEntry(cfg, type, payloadTitle)
                 me == Len(handled) + 1
             IN  CASE step.act = "lookup" ->
                        /\ handled' = Append(handled, Handled(type, payloadTitle, "awaiting", 1))
                        /\ UNCHANGED <<stdout, notified>>
                   [] step.act = "notify" ->
                        /\ handled' = Append(handled, Handled(type, payloadTitle, "done", 0))
                        /\ notified' = Append(notified,
                              NotifyOptions(OpenCode, step.message, cfg.itermIntegrationEnabled))
                        /\ stdout' = stdout \o Written(me,
                              NotifyWrites(OpenCode, step.message,
                                           cfg.itermIntegrationEnabled, termProgram))
                   [] OTHER ->
                        /\ handled' = Append(handled, Handled(type, payloadTitle, "done", 0))
                        /\ UNCHANGED <<stdout, notified>>
    /\ UNCHANGED <<clientPath, fsGlobal, fsProject, termProgram, pc, config, fsLog>>

\* client.session.get settles for a suspended session.idle handler, which then
\* calls notify and returns.
LookupSettle ==
    /\ \E i \in DOMAIN handled, outcome \in LookupOutcomes :
          /\ handled[i].state = "awaiting"
          /\ LET cfg == HandlerConfig(config, clientPath, fsGlobal, fsProject)
                 message == IdleMessage(cfg, outcome)
             IN  /\ handled' = [handled EXCEPT ![i].state = "done",
                                                ![i].settled = <<outcome>>]
                 /\ notified' = Append(notified,
                       NotifyOptions(OpenCode, message, cfg.itermIntegrationEnabled))
                 /\ stdout' = stdout \o Written(i,
                       NotifyWrites(OpenCode, message, cfg.itermIntegrationEnabled,
                                    termProgram))
    /\ UNCHANGED <<clientPath, fsGlobal, fsProject, termProgram, pc, config, fsLog>>

(***************************************************************************)
(* Specifications                                                          *)
(***************************************************************************)
InitCommon ==
    /\ pc = "start"
    /\ config = DEFAULT_CONFIG
    /\ handled = << >>
    /\ stdout = << >>
    /\ notified = << >>
    /\ fsLog = << >>

\* The plugin from its loading to the events it handles.
Init ==
    /\ clientPath \in ClientPaths
    /\ fsGlobal \in GlobalSample
    /\ fsProject \in ProjectSample
    /\ termProgram \in {Undef, ITermApp, Str(<<"Apple_Terminal">>)}
    /\ InitCommon

Next == EnsureExists \/ EnsureWrite \/ Load \/ Deliver \/ LookupSettle

Spec == Init /\ [][Next]_vars

\* The plugin under the scheduling the runtime gives it: each step of the
\* initialization is taken once it can be.  Nothing makes the host deliver an
\* event, or the server answer client.session.get, which is awaited with no
\* timeout and no race against a timer.
SpecFair ==
    /\ Init /\ [][Next]_vars
    /\ WF_vars(EnsureExists) /\ WF_vars(EnsureWrite) /\ WF_vars(Load)

\* The files a user or another process may leave in place of a config file while
\* the plugin runs: none, one that turns everything off, one that changes the
\* channel flag, a gate and a message.
LiveFiles ==
    {Missing,
     JsonFile(Obj("enabled" :> Bool(FALSE))),
     JsonFile(Obj(("itermIntegrationEnabled" :> Bool(FALSE)) @@
                  ("events" :> Obj(("session.idle" :> Obj("enabled" :> Bool(FALSE))) @@
                                   ("session.error" :> Obj("message" :> Str(<<"changed">>)))))))}

\* Someone else creates, modifies or deletes the global or the project file.
FileChanged ==
    \/ /\ \E f \in LiveFiles : f # fsGlobal /\ fsGlobal' = f
       /\ UNCHANGED <<clientPath, fsProject, termProgram, pc, config, handled, stdout,
                      notified, fsLog>>
    \/ /\ \E f \in LiveFiles : f # fsProject /\ fsProject' = f
       /\ UNCHANGED <<clientPath, fsGlobal, termProgram, pc, config, handled, stdout,
                      notified, fsLog>>

\* The plugin in iTerm2 while the files change under it.
InitLive ==
    /\ clientPath = "dir"
    /\ fsGlobal \in LiveFiles
    /\ fsProject \in LiveFiles
    /\ termProgram = ITermApp
    /\ InitCommon

NextLive == EnsureExists \/ EnsureWrite \/ Load \/ Deliver \/ LookupSettle \/ FileChanged

SpecLive == InitLive /\ [][NextLive]_vars

\* Configuration resolution over every pair of layer files.
InitConfig ==
    /\ clientPath \in ClientPaths
    /\ fsGlobal \in Files("G")
    /\ fsProject \in Files("P")
    /\ termProgram = ITermApp
    /\ InitCommon

NextConfig == EnsureExists \/ EnsureWrite \/ Load

SpecConfig == InitConfig /\ [][NextConfig]_vars

\* notify called on its own, as the tests of internals.ts call it.
NotifyTitles == {Str(<< >>), OpenCode, Str(<<"T">>)}

NotifyMessages == {Str(<< >>), Str(<<"done">>), Str(<<"a", " - ", "b">>), Str(<<BEL>>)}

CallNotify ==
    /\ Len(stdout) < MaxEvents
    /\ \E title \in NotifyTitles, message \in NotifyMessages, flag \in BOOLEAN :
          /\ notified' = Append(notified, NotifyOptions(title, message, Bool(flag)))
          /\ stdout' = Append(stdout,
                [by |-> 0, bytes |-> notify(title, message, Bool(flag), termProgram)])
    /\ UNCHANGED <<clientPath, fsGlobal, fsProject, termProgram, pc, config, handled, fsLog>>

InitNotify ==
    /\ clientPath = "dir"
    /\ fsGlobal = Missing
    /\ fsProject = Missing
    /\ termProgram \in TermPrograms
    /\ pc = "ready"
    /\ config = DEFAULT_CONFIG
    /\ handled = << >>
    /\ stdout = << >>
    /\ notified = << >>
    /\ fsLog = << >>

NextNotify == CallNotify

SpecNotify == InitNotify /\ [][NextNotify]_vars

(***************************************************************************)
(* Properties of configuration resolution (SpecConfig)                     *)
(***************************************************************************)
Resolved == pc = "ready"

\* The layers resolve folds: the parsed global file unless the global directory
\* is empty, and the parsed project file.  undefined stands for an absent layer.
GlobalLayer == IF clientPath = "dir" THEN fsGlobal.json ELSE Undef

ProjectLayer == fsProject.json

TopFields == {"enabled", "itermIntegrationEnabled"}

CategoryFields == {"enabled", "message"}

\* What a layer gives for a category's field: undefined when the layer, its events,
\* the category or the key is absent.
FieldOf(layer, c, k) == OptGet(OptGet(Get(layer, "events"), c), k)

\* A layer sets a field when it gives it a value other than null.
Sets(x) == ~IsNullish(x)

Absent(x) == x = Undef

\* C1 (Precedence): every field the project layer sets has the project layer's
\* value in the effective config, whatever the defaults and the global layer hold.
C1_Precedence ==
    Resolved =>
        /\ \A f \in TopFields :
              Sets(Get(ProjectLayer, f)) => config[f] = Get(ProjectLayer, f)
        /\ \A c \in Categories, k \in CategoryFields :
              Sets(FieldOf(ProjectLayer, c, k)) =>
                  Prop(config.events[c], k) = FieldOf(ProjectLayer, c, k)

\* The global layer sets everything one way, the project layer everything the
\* other way, and the effective config is the project's throughout.
C1_Witness ==
    /\ Resolved
    /\ GlobalLayer \in FullLayers("G")
    /\ ProjectLayer \in FullLayers("P")
    /\ Get(GlobalLayer, "enabled") = Bool(TRUE)
    /\ Get(GlobalLayer, "itermIntegrationEnabled") = Bool(TRUE)
    /\ FieldOf(GlobalLayer, "session.idle", "enabled") = Bool(TRUE)
    /\ FieldOf(GlobalLayer, "session.idle", "message") = Str(<<"G", "session.idle">>)
    /\ config.enabled = Bool(FALSE)
    /\ config.itermIntegrationEnabled = Bool(FALSE)
    /\ \A c \in Categories :
          config.events[c] = EventConfig(Bool(FALSE), Str(<<"P", c>>))

C3_MergeTotality ==
    Resolved =>
        /\ DOMAIN config.events = Categories
        /\ \A c \in Categories :
              /\ DOMAIN config.events[c] = CategoryFields
              /\ config.events[c]["enabled"].t = "boolean"
              /\ config.events[c]["message"].t = "string"
              /\ config.events[c]["message"].v # << >>

Falsy == {Bool(FALSE), Str(<< >>)}

\* C4 (presence, not truthiness): a field a layer sets to false or to '' overrides
\* the lower layers, at the top level and in each category, and every field of the
\* result is one layer's value or the default's, never a combination.
C4_PresenceNotTruthiness ==
    Resolved =>
        /\ \A f \in TopFields :
              /\ Get(ProjectLayer, f) \in Falsy => config[f] = Get(ProjectLayer, f)
              /\ (Absent(Get(ProjectLayer, f)) /\ Get(GlobalLayer, f) \in Falsy)
                    => config[f] = Get(GlobalLayer, f)
              /\ config[f] \in {Get(ProjectLayer, f), Get(GlobalLayer, f), DEFAULT_CONFIG[f]}
        /\ \A c \in Categories, k \in CategoryFields :
              /\ FieldOf(ProjectLayer, c, k) \in Falsy
                    => config.events[c][k] = FieldOf(ProjectLayer, c, k)
              /\ (Absent(FieldOf(ProjectLayer, c, k)) /\ FieldOf(GlobalLayer, c, k) \in Falsy)
                    => config.events[c][k] = FieldOf(GlobalLayer, c, k)
              /\ config.events[c][k] \in {FieldOf(ProjectLayer, c, k), FieldOf(GlobalLayer, c, k),
                                          DEFAULT_CONFIG.events[c][k]}

\* The global layer turns enabled off over the default true; the project layer sets
\* a category's enabled to false and its message to '' over the global layer's true
\* and text.
C4_Witness ==
    /\ Resolved
    /\ GlobalLayer \in FullLayers("G")
    /\ Get(GlobalLayer, "enabled") = Bool(FALSE)
    /\ FieldOf(GlobalLayer, "session.idle", "enabled") = Bool(TRUE)
    /\ ProjectLayer = Obj("events" :> Obj("session.idle" :>
                           Obj(EventConfig(Bool(FALSE), Str(<< >>)))))
    /\ config.enabled = Bool(FALSE)
    /\ config.events["session.idle"] = EventConfig(Bool(FALSE), Str(<< >>))
    /\ config.events["session.error"]["message"] = Str(<<"G", "session.error">>)

\* C5 (the nullish rule per category field): each of enabled and message of each
\* category is projectLayer.field ?? globalLayer.field ?? default.field, a null
\* field falling through like an absent one.
C5_NullishPerCategoryField ==
    Resolved =>
        \A c \in Categories :
            /\ DOMAIN config.events[c] = CategoryFields
            /\ \A k \in CategoryFields :
                  config.events[c][k] =
                      Nullish(FieldOf(ProjectLayer, c, k),
                              Nullish(FieldOf(GlobalLayer, c, k), DEFAULT_CONFIG.events[c][k]))

Broken(file) == file.kind \in {"missing", "nodir", "stat_error", "unreadable", "malformed"}

\* C6: a file that is missing, cannot be read or does not parse never makes the
\* initialization fail (only the directory lookup can), and the effective config is
\* the one the other layer alone gives: the broken layer contributes nothing.
C6_BrokenLayerIsAbsent ==
    /\ pc = "failed" => clientPath = "reject"
    /\ Resolved =>
          /\ Broken(fsProject) =>
                config = IF Truthy(GlobalLayer)
                         THEN mergeConfig(DEFAULT_CONFIG, GlobalLayer) ELSE DEFAULT_CONFIG
          /\ Broken(fsGlobal) =>
                config = IF Truthy(ProjectLayer)
                         THEN mergeConfig(DEFAULT_CONFIG, ProjectLayer) ELSE DEFAULT_CONFIG

\* The project file does not parse, the global file cannot be read: resolution
\* ends with the defaults.
C6_Witness ==
    /\ Resolved
    /\ fsProject.kind = "malformed"
    /\ fsGlobal.kind = "unreadable"
    /\ config = DEFAULT_CONFIG

(***************************************************************************)
(* Properties of the event handler (Spec)                                  *)
(***************************************************************************)
\* The writes to standard output made by the i-th call of the handler.
WritesBy(i) == Cardinality({j \in DOMAIN stdout : stdout[j].by = i})

\* C7 (Gate 1): with enabled false in the effective config, and so whenever the
\* project layer sets enabled to false, no call of the handler writes to standard
\* output, calls notify or calls the session lookup, and every call has returned.
C7_GlobalGate ==
    /\ (Resolved /\ config.enabled = Bool(FALSE)) =>
          /\ stdout = << >>
          /\ notified = << >>
          /\ \A i \in DOMAIN handled : handled[i].lookups = 0 /\ handled[i].state = "done"
    /\ Get(ProjectLayer, "enabled") = Bool(FALSE) =>
          /\ stdout = << >>
          /\ \A i \in DOMAIN handled : handled[i].lookups = 0

\* The global layer says enabled true, the project layer false; a session.idle and
\* a session.error event have been handled and nothing was written.
C7_Witness ==
    /\ Resolved
    /\ Get(GlobalLayer, "enabled") = Bool(TRUE)
    /\ Get(ProjectLayer, "enabled") = Bool(FALSE)
    /\ Len(handled) = 2
    /\ handled[1].type = "session.idle"
    /\ handled[2].type = "session.error"
    /\ stdout = << >>

\* C8 (Gate 2): with enabled true, an event of a category whose enabled is false
\* makes no write and no lookup call, and an event of a category whose enabled is
\* true makes exactly one write once its handler has returned (none, and one lookup
\* call, while a session.idle handler awaits its lookup).
C8_CategoryGate ==
    (Resolved /\ config.enabled = Bool(TRUE)) =>
        \A i \in DOMAIN handled :
            handled[i].type \in Categories =>
                LET on == config.events[handled[i].type]["enabled"]
                IN  /\ on = Bool(FALSE) =>
                          /\ WritesBy(i) = 0
                          /\ handled[i].lookups = 0
                          /\ handled[i].state = "done"
                    /\ on = Bool(TRUE) =>
                          /\ handled[i].state = "done" => WritesBy(i) = 1
                          /\ handled[i].state = "awaiting" =>
                                /\ handled[i].type = "session.idle"
                                /\ WritesBy(i) = 0
                                /\ handled[i].lookups = 1

\* permission.updated is disabled and session.idle is not: the permission event
\* wrote nothing, the idle event that followed wrote once.
C8_Witness ==
    /\ Resolved
    /\ config.enabled = Bool(TRUE)
    /\ config.events["permission.updated"]["enabled"] = Bool(FALSE)
    /\ config.events["session.idle"]["enabled"] = Bool(TRUE)
    /\ Len(handled) = 2
    /\ handled[1].type = "permission.updated"
    /\ handled[2].type = "session.idle"
    /\ handled[2].state = "done"
    /\ WritesBy(1) = 0
    /\ WritesBy(2) = 1

\* C9: an event of no known type is a no-op under every configuration: its handler
\* has returned, wrote nothing and called no lookup.
C9_UnknownEventNoOp ==
    \A i \in DOMAIN handled :
        handled[i].type \notin Categories =>
            /\ handled[i].state = "done"
            /\ WritesBy(i) = 0
            /\ handled[i].lookups = 0

\* Everything is enabled; an unknown event wrote nothing, the session.error event
\* after it wrote once.
C9_Witness ==
    /\ Resolved
    /\ config = DEFAULT_CONFIG
    /\ Len(handled) = 2
    /\ handled[1].type = "message.updated"
    /\ handled[2].type = "session.error"
    /\ Len(stdout) = 1
    /\ stdout[1].by = 2

(***************************************************************************)
(* Properties of notify (SpecNotify)                                       *)
(***************************************************************************)
\* C10 (Channel selection): each call of notify makes one write; it is
\* ESC ] 9 ; title " - " message BEL when the flag is true and TERM_PROGRAM is
\* exactly 'iTerm.app', and the single BEL otherwise, whatever title and message.
C10_ChannelSelection ==
    /\ Len(stdout) = Len(notified)
    /\ \A i \in DOMAIN stdout :
          stdout[i].bytes =
              IF notified[i].itermIntegrationEnabled = Bool(TRUE)
                 /\ termProgram = Str(<<"iTerm.app">>)
              THEN <<ESC, "]", "9", ";">> \o notified[i].title.v \o <<" - ">>
                       \o notified[i].message.v \o <<BEL>>
              ELSE <<BEL>>

\* In iTerm2, a call with the flag on wrote the escape sequence and a call with the
\* flag off wrote the bell alone.
C10_Witness ==
    /\ termProgram = ITermApp
    /\ Len(stdout) = 2
    /\ notified[1] = NotifyOptions(Str(<<"T">>), Str(<<"done">>), Bool(TRUE))
    /\ stdout[1].bytes = <<ESC, "]", "9", ";", "T", " - ", "done", BEL>>
    /\ notified[2].itermIntegrationEnabled = Bool(FALSE)
    /\ notified[2].message = Str(<<"done">>)
    /\ stdout[2].bytes = <<BEL>>

(***************************************************************************)
(* Properties of the messages the handler emits (Spec)                     *)
(***************************************************************************)
\* The writes of the handler call i, as indices of stdout and of notified.
EmissionsOf(i) == {j \in DOMAIN stdout : stdout[j].by = i}

\* The handler call i is of a category, and both gates let it pass.
PassesGates(i) ==
    /\ handled[i].type \in Categories
    /\ config.enabled = Bool(TRUE)
    /\ config.events[handled[i].type]["enabled"] = Bool(TRUE)

\* The lookup rejects, resolves without data, or with data that has no title.
LookupFailures == {Threw, Return(Obj(NoProps)), Return(Obj("data" :> Obj(NoProps)))}

\* The text of a category's message in the effective config.
MessageOf(type) == config.events[type]["message"].v

\* C11 (Lookup fallback): a session.idle call that passed both gates and whose
\* lookup rejected, returned no data or returned data without a title has returned
\* normally and made exactly one emission, whose message ends with the placeholder
\* 'Session' as its detail.
C11_LookupFallback ==
    Resolved =>
        \A i \in DOMAIN handled :
            (handled[i].type = "session.idle" /\ PassesGates(i)) =>
                \A outcome \in LookupFailures :
                    handled[i].settled = <<outcome>> =>
                        /\ handled[i].state = "done"
                        /\ WritesBy(i) = 1
                        /\ \A j \in EmissionsOf(i) :
                              notified[j].message =
                                  Str(MessageOf("session.idle") \o <<": ", "Session">>)

\* Two session.idle events under the defaults: the lookup of one rejected, the
\* lookup of the other gave data without a title; both emitted 'Session'.
C11_Witness ==
    /\ Resolved
    /\ config = DEFAULT_CONFIG
    /\ Len(handled) = 2
    /\ handled[1].type = "session.idle"
    /\ handled[1].settled = <<Threw>>
    /\ handled[2].type = "session.idle"
    /\ handled[2].settled = <<Return(Obj("data" :> Obj(NoProps)))>>
    /\ Len(stdout) = 2
    /\ \A j \in 1..2 : notified[j].message = Str(<<"Session completed", ": ", "Session">>)

\* The detail of a permission.updated event: its title, 'Unknown' when the payload
\* has none.
PermissionDetail(title) == IF title \in {Undef, Null} THEN <<"Unknown">> ELSE title.v

\* C12 (Missing payload fallback): a permission.updated call that passed both
\* gates has returned after exactly one emission and no lookup; the detail of its
\* message is the title of the payload, and 'Unknown' when the title is undefined
\* or null.
C12_PermissionDetail ==
    Resolved =>
        \A i \in DOMAIN handled :
            (handled[i].type = "permission.updated" /\ PassesGates(i)) =>
                /\ handled[i].state = "done"
                /\ handled[i].lookups = 0
                /\ WritesBy(i) = 1
                /\ \A j \in EmissionsOf(i) :
                      notified[j].message =
                          Str(MessageOf("permission.updated") \o <<": ">>
                              \o PermissionDetail(handled[i].title))

\* Under the defaults a permission.updated event titled 'Bash' and one with a null
\* title emitted 'Permission needed: Bash' and 'Permission needed: Unknown'.
C12_Witness ==
    /\ Resolved
    /\ config = DEFAULT_CONFIG
    /\ Len(handled) = 2
    /\ handled[1].type = "permission.updated"
    /\ handled[1].title = Str(<<"Bash">>)
    /\ handled[2].type = "permission.updated"
    /\ handled[2].title = Null
    /\ Len(notified) = 2
    /\ notified[1].message = Str(<<"Permission needed", ": ", "Bash">>)
    /\ notified[2].message = Str(<<"Permission needed", ": ", "Unknown">>)

\* The rich channel is selected: the flag is on and the terminal is iTerm2.
RichChannel ==
    /\ config.itermIntegrationEnabled = Bool(TRUE)
    /\ termProgram = Str(<<"iTerm.app">>)

\* The detail of a session.idle event whose lookup settled as response: the title
\* of the data when there is a non-empty one, 'Session' otherwise.
IdleDetail(response) ==
    IF /\ ~response.threw
       /\ "data" \in DOMAIN response.val.v
       /\ "title" \in DOMAIN response.val.v["data"].v
       /\ response.val.v["data"].v["title"] # Str(<< >>)
    THEN response.val.v["data"].v["title"].v
    ELSE <<"Session">>

\* C13 (Message composition with detail): on the rich channel every emission of a
\* session.idle or permission.updated call is exactly
\* ESC ] 9 ; OpenCode - {category.message}: {detail} BEL.
C13_MessageWithDetail ==
    (Resolved /\ RichChannel) =>
        \A j \in DOMAIN stdout :
            LET h == handled[stdout[j].by]
            IN  /\ h.type = "session.idle" =>
                      /\ Len(h.settled) = 1
                      /\ stdout[j].bytes =
                            <<ESC, "]", "9", ";", "OpenCode", " - ">>
                                \o MessageOf("session.idle") \o <<": ">>
                                \o IdleDetail(h.settled[1]) \o <<BEL>>
                /\ h.type = "permission.updated" =>
                      stdout[j].bytes =
                          <<ESC, "]", "9", ";", "OpenCode", " - ">>
                              \o MessageOf("permission.updated") \o <<": ">>
                              \o PermissionDetail(h.title) \o <<BEL>>

\* Defaults only, in iTerm2: the lookup of a session.idle event returned the title
\* 'Build' and the emission is ESC ] 9 ; OpenCode - Session completed: Build BEL.
C13_Witness ==
    /\ Resolved
    /\ config = DEFAULT_CONFIG
    /\ termProgram = ITermApp
    /\ Len(handled) >= 1
    /\ handled[1].type = "session.idle"
    /\ handled[1].settled = <<Return(Obj("data" :> Obj("title" :> Str(<<"Build">>))))>>
    /\ Len(stdout) >= 1
    /\ stdout[1] = [by |-> 1,
                    bytes |-> <<ESC, "]", "9", ";", "OpenCode", " - ", "Session completed",
                                ": ", "Build", BEL>>]

\* C14 (Message composition without detail): a session.error call never calls the
\* lookup and has returned; whatever its payload, the message of its emission is
\* the category's message alone, and on the rich channel the emission is exactly
\* ESC ] 9 ; OpenCode - {category.message} BEL.
C14_ErrorWithoutDetail ==
    Resolved =>
        \A i \in DOMAIN handled :
            handled[i].type = "session.error" =>
                /\ handled[i].state = "done"
                /\ handled[i].lookups = 0
                /\ handled[i].settled = << >>
                /\ \A j \in EmissionsOf(i) :
                      /\ notified[j].message = Str(MessageOf("session.error"))
                      /\ RichChannel =>
                            stdout[j].bytes =
                                <<ESC, "]", "9", ";", "OpenCode", " - ">>
                                    \o MessageOf("session.error") \o <<BEL>>

\* Defaults only, in iTerm2: a session.error event whose payload has the title
\* 'Bash' and one without a title both emitted ESC ] 9 ; OpenCode - Error occurred BEL.
C14_Witness ==
    /\ Resolved
    /\ config = DEFAULT_CONFIG
    /\ termProgram = ITermApp
    /\ Len(handled) = 2
    /\ handled[1].type = "session.error"
    /\ handled[1].title = Str(<<"Bash">>)
    /\ handled[2].type = "session.error"
    /\ handled[2].title = Undef
    /\ Len(stdout) = 2
    /\ \A j \in 1..2 :
          stdout[j].bytes = <<ESC, "]", "9", ";", "OpenCode", " - ", "Error occurred", BEL>>

\* C15 (At most one emission per event): every write is the write of a handled
\* event, no call of the handler writes more than once, a call of a known category
\* that passed both gates and has returned wrote exactly once, and after n events
\* there are at most n writes.
C15_AtMostOneEmission ==
    /\ Len(stdout) <= Len(handled)
    /\ \A j \in DOMAIN stdout : stdout[j].by \in DOMAIN handled
    /\ \A i \in DOMAIN handled :
          /\ WritesBy(i) <= 1
          /\ (Resolved /\ PassesGates(i) /\ handled[i].state = "done") => WritesBy(i) = 1

\* In iTerm2 under the defaults a session.idle event whose lookup returned and an
\* unknown event have been handled: one write for the two events.
C15_Witness ==
    /\ Resolved
    /\ config = DEFAULT_CONFIG
    /\ termProgram = ITermApp
    /\ Len(handled) = 2
    /\ handled[1].type = "session.idle"
    /\ handled[1].state = "done"
    /\ handled[2].type = "message.updated"
    /\ Len(stdout) = 1
    /\ WritesBy(1) = 1
    /\ WritesBy(2) = 0

(***************************************************************************)
(* Properties of ensureGlobalConfig (SpecConfig)                           *)
(***************************************************************************)
\* C16 (Ensure is idempotent and non-destructive): no step of the
\* initialization changes a global file that exists, whatever it holds (valid,
\* partial or unparsable), or calls mkdir or Bun.write for it.
C16_NeverOverwrites ==
    [][fsGlobal.kind \notin {"missing", "nodir"} =>
          (fsGlobal' = fsGlobal /\ fsLog' = fsLog)]_vars

\* The initialization has run to its end on an unparsable global file: the file
\* is as it was and nothing was written.
C16_Witness ==
    /\ Resolved
    /\ clientPath = "dir"
    /\ fsGlobal = File("malformed", Undef)
    /\ fsLog = << >>

\* The text of the defaults, pretty-printed with two spaces and ended by a line feed.
DefaultsText ==
    <<"{", "\n",
      " ", " ", "\"", "enabled", "\"", ":", " ", "true", ",", "\n",
      " ", " ", "\"", "itermIntegrationEnabled", "\"", ":", " ", "true", ",", "\n",
      " ", " ", "\"", "events", "\"", ":", " ", "{", "\n",
      " ", " ", " ", " ", "\"", "session.idle", "\"", ":", " ", "{", "\n",
      " ", " ", " ", " ", " ", " ", "\"", "enabled", "\"", ":", " ", "true", ",", "\n",
      " ", " ", " ", " ", " ", " ", "\"", "message", "\"", ":", " ",
          "\"", "Session completed", "\"", "\n",
      " ", " ", " ", " ", "}", ",", "\n",
      " ", " ", " ", " ", "\"", "permission.updated", "\"", ":", " ", "{", "\n",
      " ", " ", " ", " ", " ", " ", "\"", "enabled", "\"", ":", " ", "true", ",", "\n",
      " ", " ", " ", " ", " ", " ", "\"", "message", "\"", ":", " ",
          "\"", "Permission needed", "\"", "\n",
      " ", " ", " ", " ", "}", ",", "\n",
      " ", " ", " ", " ", "\"", "session.error", "\"", ":", " ", "{", "\n",
      " ", " ", " ", " ", " ", " ", "\"", "enabled", "\"", ":", " ", "true", ",", "\n",
      " ", " ", " ", " ", " ", " ", "\"", "message", "\"", ":", " ",
          "\"", "Error occurred", "\"", "\n",
      " ", " ", " ", " ", "}", "\n",
      " ", " ", "}", "\n",
      "}", "\n">>

\* DEFAULT_CONFIG as the value a parser of JSON gives.
DefaultsValue ==
    Obj(("enabled" :> Bool(TRUE)) @@ ("itermIntegrationEnabled" :> Bool(TRUE)) @@
        ("events" :> Obj(
            ("session.idle" :>
                Obj(("enabled" :> Bool(TRUE)) @@ ("message" :> Str(<<"Session completed">>))))
            @@ ("permission.updated" :>
                Obj(("enabled" :> Bool(TRUE)) @@ ("message" :> Str(<<"Permission needed">>))))
            @@ ("session.error" :>
                Obj(("enabled" :> Bool(TRUE)) @@ ("message" :> Str(<<"Error occurred">>)))))))

\* C17 (Ensure creates defaults): when the global file was missing and neither
\* mkdir nor Bun.write failed, the directory and the file exist afterwards, the
\* text written is the pretty-printed serialization of the defaults ended by a
\* line feed, and parsing it gives a value equal to DEFAULT_CONFIG, which is what
\* a reader of the file gets.
C17_CreatesDefaults ==
    (fsLog # << >> /\ \A k \in DOMAIN fsLog : fsLog[k].result = "ok") =>
        /\ Len(fsLog) = 2
        /\ fsLog[1].op = "mkdir"
        /\ fsLog[2].op = "write"
        /\ fsLog[2].text = DefaultsText
        /\ JsonParse(fsLog[2].text) = Return(DefaultsValue)
        /\ fsGlobal = JsonFile(DefaultsValue)
        /\ loadConfigFile(fsGlobal) = Return(DefaultsValue)
        /\ mergeConfig(DEFAULT_CONFIG, loadConfigFile(fsGlobal).val) = DEFAULT_CONFIG

\* The directory was created and the file written without a failure, and the
\* configuration was resolved from the file just written and no project file.
C17_Witness ==
    /\ Resolved
    /\ clientPath = "dir"
    /\ Len(fsLog) = 2
    /\ fsLog[1] = FsCall("mkdir", << >>, "ok")
    /\ fsLog[2].result = "ok"
    /\ fsGlobal.kind = "json"
    /\ fsProject = Missing
    /\ config = DEFAULT_CONFIG

\* A step of ensureGlobalConfig on the file system failed: the existence check,
\* mkdir, or Bun.write.
IoFailed ==
    \/ fsGlobal.kind = "stat_error"
    \/ \E k \in DOMAIN fsLog : fsLog[k].result # "ok"

\* A config that has every top-level field and, for each category, both fields.
Total(cfg) ==
    /\ DOMAIN cfg = {"enabled", "itermIntegrationEnabled", "events"}
    /\ DOMAIN cfg.events = Categories
    /\ \A c \in Categories : CategoryFields \subseteq DOMAIN cfg.events[c]

\* C18 (Ensure is fail-open): when the existence check, mkdir or Bun.write of
\* ensureGlobalConfig fails, the initialization does not fail: the resolve that
\* follows returns a config with every field, built from the defaults and the
\* project layer, the global file being unreadable or absent.
C18_EnsureFailOpen ==
    (clientPath = "dir" /\ IoFailed) =>
        /\ pc # "failed"
        /\ Resolved =>
              /\ Total(config)
              /\ config = IF Truthy(ProjectLayer)
                          THEN mergeConfig(DEFAULT_CONFIG, ProjectLayer)
                          ELSE DEFAULT_CONFIG

\* mkdir failed, nothing was written, and the configuration was resolved with the
\* project layer's enabled false over the defaults.
C18_Witness ==
    /\ Resolved
    /\ clientPath = "dir"
    /\ fsLog = <<FsCall("mkdir", << >>, "fails")>>
    /\ fsGlobal.kind = "nodir"
    /\ ProjectLayer = Obj("enabled" :> Bool(FALSE))
    /\ config.enabled = Bool(FALSE)
    /\ config.events = DEFAULT_CONFIG.events

\* C19 (Empty global directory skips the layer): when the resolver of the global
\* directory gives an empty or absent path, the initialization calls neither
\* mkdir nor Bun.write and does not fail, and the effective config is the merge
\* of the defaults and the project layer whatever the global file holds.
C19_EmptyDirSkipsGlobal ==
    clientPath = "nodata" =>
        /\ fsLog = << >>
        /\ pc \notin {"creating", "failed"}
        /\ Resolved =>
              config = IF Truthy(ProjectLayer)
                       THEN mergeConfig(DEFAULT_CONFIG, ProjectLayer)
                       ELSE DEFAULT_CONFIG

\* The path is empty, a global file that would turn everything off is not read
\* and none is created: the config is the defaults.
C19_Witness ==
    /\ Resolved
    /\ clientPath = "nodata"
    /\ fsGlobal.kind = "json"
    /\ Get(fsGlobal.json, "enabled") = Bool(FALSE)
    /\ fsProject = File("nodir", Undef)
    /\ fsLog = << >>
    /\ config = DEFAULT_CONFIG

(***************************************************************************)
(* Failures of the collaborators (Spec)                                    *)
(***************************************************************************)
\* C20 (No failure reaches the host): whatever fails among the resolver of the
\* global directory, the reads and writes of files and the session lookup, the
\* initialization of the plugin does not end in a rejection and every call of the
\* handler has returned or awaits its lookup.
C20_NoFailureReachesHost ==
    /\ pc # "failed"
    /\ \A i \in DOMAIN handled : handled[i].state \in {"done", "awaiting"}

(***************************************************************************)
(* The configuration while the files change (SpecLive)                     *)
(***************************************************************************)
\* A text begins with another.
StartsWith(text, prefix) ==
    Len(text) >= Len(prefix) /\ SubSeq(text, 1, Len(prefix)) = prefix

\* C22 (Config is fixed after initialization): once the configuration is
\* resolved no step changes it, be it an event or the creation, modification or
\* deletion of a config file; every event delivered afterwards is let through or
\* dropped by the gates of that configuration, and every call of notify
\* afterwards carries its channel flag and its message for the category.
C22_ConfigFixedAfterInit ==
    [][Resolved =>
          /\ config' = config
          /\ \A i \in DOMAIN handled' \ DOMAIN handled :
                LET h == handled'[i]
                    passes == /\ h.type \in Categories
                              /\ config.enabled = Bool(TRUE)
                              /\ config.events[h.type]["enabled"] = Bool(TRUE)
                    wrote == \E j \in DOMAIN stdout' : stdout'[j].by = i
                IN  passes <=> (wrote \/ h.state = "awaiting")
          /\ \A j \in DOMAIN notified' \ DOMAIN notified :
                /\ notified'[j].itermIntegrationEnabled = config.itermIntegrationEnabled
                /\ StartsWith(notified'[j].message.v,
                              config.events[handled'[stdout'[j].by].type]["message"].v)]_vars

\* The configuration was resolved from no file at all; both files now turn
\* everything off, and a session.error event was still notified with the default
\* message on the rich channel.
C22_Witness ==
    /\ Resolved
    /\ config = DEFAULT_CONFIG
    /\ fsLog = <<FsCall("mkdir", << >>, "fails")>>
    /\ fsGlobal = JsonFile(Obj("enabled" :> Bool(FALSE)))
    /\ fsProject = JsonFile(Obj("enabled" :> Bool(FALSE)))
    /\ Len(handled) = 1
    /\ handled[1].type = "session.error"
    /\ stdout = <<[by |-> 1,
                   bytes |-> <<ESC, "]", "9", ";", "OpenCode", " - ", "Error occurred", BEL>>]>>

(***************************************************************************)
(* The bell (SpecNotify)                                                   *)
(***************************************************************************)
\* C23 (The bell reaches every terminal): every write of notify, the escape
\* sequence of the rich channel and the plain one alike, in every terminal, is
\* not empty and ends with the BEL byte.
C23_EveryEmissionEndsWithBell ==
    \A j \in DOMAIN stdout :
        /\ stdout[j].bytes # << >>
        /\ stdout[j].bytes[Len(stdout[j].bytes)] = BEL

\* In iTerm2 with the flag on, a message that itself holds ' - ' was written as an
\* escape sequence ended by the bell; in the next call, flag off, the bell alone.
C23_Witness ==
    /\ termProgram = ITermApp
    /\ Len(stdout) = 2
    /\ notified[1] = NotifyOptions(OpenCode, Str(<<"a", " - ", "b">>), Bool(TRUE))
    /\ stdout[1].bytes = <<ESC, "]", "9", ";", "OpenCode", " - ", "a", " - ", "b", BEL>>
    /\ notified[2].itermIntegrationEnabled = Bool(FALSE)
    /\ stdout[2].bytes = <<BEL>>

(***************************************************************************)
(* Progress of the handler (SpecFair)                                      *)
(***************************************************************************)
\* C24 (The lookup is bounded): a session.idle call suspended on its lookup, which
\* it is only after passing both gates, eventually returns after its one emission,
\* whether or not the server ever answers.
C24_IdleEventuallyEmits ==
    \A i \in 1..MaxEvents :
        (i \in DOMAIN handled /\ handled[i].state = "awaiting")
            ~> (i \in DOMAIN handled /\ handled[i].state = "done" /\ WritesBy(i) = 1)

(***************************************************************************)
(* Overlapping calls of the handler (Spec)                                 *)
(***************************************************************************)
\* C25 (No fire-and-forget): a write of a session.idle call is made only once its
\* lookup, called once, has settled; a call still awaiting its lookup has written
\* nothing; and a call that passed both gates and has returned has made its write.
C25_NoFireAndForget ==
    Resolved =>
        /\ \A j \in DOMAIN stdout :
              handled[stdout[j].by].type = "session.idle" =>
                  /\ handled[stdout[j].by].lookups = 1
                  /\ Len(handled[stdout[j].by].settled) = 1
        /\ \A i \in DOMAIN handled :
              /\ handled[i].state = "awaiting" => (WritesBy(i) = 0 /\ handled[i].settled = << >>)
              /\ (handled[i].state = "done" /\ PassesGates(i)) => WritesBy(i) >= 1

\* A session.idle call awaits its lookup and has written nothing, while the
\* session.idle call before it wrote after its lookup was rejected.
C25_Witness ==
    /\ Resolved
    /\ config = DEFAULT_CONFIG
    /\ Len(handled) = 2
    /\ handled[1].type = "session.idle"
    /\ handled[1].state = "done"
    /\ handled[1].settled = <<Threw>>
    /\ handled[2].type = "session.idle"
    /\ handled[2].state = "awaiting"
    /\ Len(stdout) = 1
    /\ stdout[1].by = 1

(***************************************************************************)
(* ensureGlobalConfig while others write (SpecLive)                        *)
(***************************************************************************)
\* C26 (Ensure never overwrites under concurrency): no step in which
\* ensureGlobalConfig calls mkdir or Bun.write changes a global file that exists
\* at that moment, such as one another writer created after the existence check.
C26_NoOverwriteUnderRace ==
    [][(fsGlobal.kind \notin {"missing", "nodir"} /\ fsLog' # fsLog) =>
          fsGlobal' = fsGlobal]_vars

\* The message an event yields when handled alone, from its own type, payload and
\* lookup result.
AloneMessage(h) ==
    CASE h.type = "session.idle" ->
           Str(MessageOf("session.idle") \o <<": ">> \o IdleDetail(h.settled[1]))
      [] h.type = "permission.updated" ->
           Str(MessageOf("permission.updated") \o <<": ">> \o PermissionDetail(h.title))
      [] OTHER -> Str(MessageOf("session.error"))

\* C27 (No shared state across events): however the calls of the handler overlap,
\* a call that passed both gates and has returned made exactly one call of notify
\* and one write, those it would make alone, composed from its own type, payload
\* and lookup result; a call stopped by a gate or of an unknown type made none; and
\* there is no other write.
C27_NoSharedState ==
    Resolved =>
        /\ Len(notified) = Len(stdout)
        /\ \A i \in DOMAIN handled :
              IF PassesGates(i) /\ handled[i].state = "done"
              THEN /\ WritesBy(i) = 1
                   /\ \A j \in EmissionsOf(i) :
                         /\ notified[j] = NotifyOptions(OpenCode, AloneMessage(handled[i]),
                                                        config.itermIntegrationEnabled)
                         /\ stdout[j].bytes =
                               IF RichChannel
                               THEN <<ESC, "]", "9", ";", "OpenCode", " - ">>
                                        \o AloneMessage(handled[i]).v \o <<BEL>>
                               ELSE <<BEL>>
              ELSE WritesBy(i) = 0

\* A permission.updated event titled 'Bash' was handled while a session.idle call
\* awaited its lookup, which then returned 'Build': each emission has its own
\* detail, the permission's first.
C27_Witness ==
    /\ Resolved
    /\ config = DEFAULT_CONFIG
    /\ Len(handled) = 2
    /\ handled[1].type = "session.idle"
    /\ handled[1].settled = <<Return(Obj("data" :> Obj("title" :> Str(<<"Build">>))))>>
    /\ handled[2].type = "permission.updated"
    /\ handled[2].title = Str(<<"Bash">>)
    /\ Len(stdout) = 2
    /\ stdout[1].by = 2
    /\ stdout[2].by = 1
    /\ notified[1].message = Str(<<"Permission needed", ": ", "Bash">>)
    /\ notified[2].message = Str(<<"Session completed", ": ", "Build">>)

\* C28 as stated (Emissions follow arrival order): of two writes, the earlier is
\* the write of the event delivered earlier, also when an event is delivered while
\* a session.idle call awaits its lookup.
C28_ArrivalOrder ==
    \A j, k \in DOMAIN stdout : j < k => stdout[j].by < stdout[k].by

\* C28 as amended: of two writes, the earlier is the write of the event delivered
\* earlier unless that event is a session.idle event, whose write waits for its
\* lookup; the writes of the other events are in the order of their arrival.
C28_ArrivalOrderButPendingIdle ==
    \A j, k \in DOMAIN stdout :
        (j < k /\ stdout[j].by > stdout[k].by) =>
            /\ handled[stdout[k].by].type = "session.idle"
            /\ handled[stdout[k].by].lookups = 1

\* A session.error event was delivered while a session.idle call awaited its
\* lookup: the error's write is first, the idle event's follows the rejection of
\* its lookup.
C28_Witness ==
    /\ Resolved
    /\ Len(handled) = 2
    /\ handled[1].type = "session.idle"
    /\ handled[1].settled = <<Threw>>
    /\ handled[2].type = "session.error"
    /\ Len(stdout) = 2
    /\ stdout[1].by = 2
    /\ stdout[2].by = 1

(***************************************************************************)
(* Unknown fields and the bootstrap (SpecConfig)                           *)
(***************************************************************************)
\* A category of a layer without the keys that are not fields of a category.
KnownOfCategory(x) ==
    IF x.t # "object" THEN x
    ELSE Obj([k \in DOMAIN x.v \cap CategoryFields |-> x.v[k]])

\* The events of a layer without the categories that do not exist.
KnownOfEvents(x) ==
    IF x.t # "object" THEN x
    ELSE Obj([c \in DOMAIN x.v \cap Categories |-> KnownOfCategory(x.v[c])])

\* A layer file without its unknown keys.
KnownOf(file) ==
    IF file.kind # "json" \/ file.json.t # "object" THEN file
    ELSE JsonFile(Obj([k \in DOMAIN file.json.v \cap (TopFields \cup {"events"}) |->
                          IF k = "events" THEN KnownOfEvents(file.json.v[k])
                          ELSE file.json.v[k]]))

\* C29 (Unknown fields are ignored): the effective config has exactly the keys
\* enabled, itermIntegrationEnabled and events, exactly the three categories and
\* in each exactly enabled and message, and it equals the config resolved from the
\* same layers without their unknown keys.
C29_UnknownFieldsIgnored ==
    Resolved =>
        /\ DOMAIN config = TopFields \cup {"events"}
        /\ DOMAIN config.events = Categories
        /\ \A c \in Categories : DOMAIN config.events[c] = CategoryFields
        /\ config = loadConfig(clientPath, KnownOf(fsGlobal), KnownOf(fsProject)).val

\* C30 (Bootstrap is neutral): when ensureGlobalConfig has written the defaults
\* as the global file, the config loadConfig returns is the one it returns with no
\* global layer at all, the merge of the defaults and the project layer; and
\* merging the project layer over the defaults merged with the written file gives
\* the same as merging it over the defaults.
C30_BootstrapNeutral ==
    (Resolved /\ Len(fsLog) = 2 /\ fsLog[2].op = "write" /\ fsLog[2].result = "ok") =>
        /\ config = IF Truthy(ProjectLayer)
                    THEN mergeConfig(DEFAULT_CONFIG, ProjectLayer)
                    ELSE DEFAULT_CONFIG
        /\ Truthy(ProjectLayer) =>
              mergeConfig(mergeConfig(DEFAULT_CONFIG, fsGlobal.json), ProjectLayer)
                  = mergeConfig(DEFAULT_CONFIG, ProjectLayer)

\* The defaults were written as the global file and the project layer changes one
\* message: the config is the defaults with that message.
C30_Witness ==
    /\ Resolved
    /\ clientPath = "dir"
    /\ Len(fsLog) = 2
    /\ fsLog[2].result = "ok"
    /\ fsGlobal = JsonFile(DefaultsValue)
    /\ ProjectLayer = Obj("events" :> Obj("session.idle" :> Obj("message" :> Str(<<"P">>))))
    /\ config = [DEFAULT_CONFIG EXCEPT !.events["session.idle"]["message"] = Str(<<"P">>)]

====
